---- MODULE Spec2Model ----
(***************************************************************************)
(* Model of the weather-aware trip scheduler of ai-travel-agent:           *)
(*   - the forecast scorers (WeatherService._calculate_day_score in the    *)
(*     mcp and _mcp trees, TripPlannerService._calculate_weather_score),   *)
(*   - the consecutive-window selector (_find_best_consecutive_days) and   *)
(*     the date selection built on it (_select_optimal_dates),             *)
(*   - the activity slotter for one day (_plan_single_day),                *)
(*   - TripPlannerService.plan_trip as a step machine with its external    *)
(*     collaborators (geocoder, forecast, points of interest, booking),    *)
(*   - the tools of the trip planner server (trip_planner/tools.py) that   *)
(*     call the service.                                                   *)
(*                                                                         *)
(* Units.  Scores are kept in HALF POINTS (200 = the score 100) so that    *)
(* precip_prob / 2 stays an integer.  Precipitation is kept in tenths of   *)
(* a millimetre so that precip_sum * 10 is the integer number of points.   *)
(* Dates are day numbers; Today is the day datetime.now() falls on.        *)
(***************************************************************************)
EXTENDS Integers, Sequences, FiniteSets, TLC

VARIABLES
    \* --- forecast scorer harness -------------------------------------
    day,            \* the DailyForecast handed to the scorers
    scores,         \* the scores the three scorers returned for day
    \* --- window selector harness -------------------------------------
    scored_days,    \* the list handed to _find_best_consecutive_days
    days_needed,    \* its window size
    best_dates,     \* what it returned (<<>> = nothing found)
    sel_pc,         \* "input" before the call, "returned" after it
    \* --- single day harness ------------------------------------------
    style_config,   \* name of the trip style handed to _plan_single_day
    plan_date,      \* the date handed to _plan_single_day
    poi_answers,    \* answer of the places collaborator to each query
    day_plan,       \* the DayPlan it returned
    day_pc,         \* "input" before the call, "returned" after it
    \* --- plan_trip ---------------------------------------------------
    pc,             \* position inside plan_trip
    args,           \* the arguments of the call
    api_key,        \* booking_service.api_key (TRUE = configured)
    coords,         \* lat, lng once resolved
    geo_outcome,    \* what get_coordinates met: "none", "zero_results", "failed", "found"
    trip_days,      \* _parse_duration(duration)
    dates,          \* the planned dates
    date_path,      \* which branch chose the dates
    daily_plans,    \* the DayPlans built so far
    poi_failures,   \* number of places queries that failed in this run
    accommodation,  \* the picked offer, or NoOffer
    result,         \* what plan_trip returned or raised
    calls,          \* number of calls made to each collaborator
    log,            \* the lines printed during the run
    booking_answer, \* what search_accommodations_data answered in this run
    \* --- trip planner server tools -----------------------------------
    tool_pc,        \* position inside the tool function
    tool_call,      \* the tool that was called, with its arguments
    tool_exception, \* the exception raised inside the tool's try block
    tool_result,    \* what the tool returned
    \* --- process_user_query, two requests on one event loop -----------
    req_pc,             \* position of each request inside process_user_query
    agent_mcp_servers,  \* for each agent, the request whose server its mcp_servers holds
    server_open,        \* for each request, whether its server connections are open
    last_use,           \* the latest tool use: by which request, through whose server
    \* --- weather-condition date matching ------------------------------
    match_pc,       \* "input" before the call, "returned" after it
    match_call,     \* forecast, weather_condition and days of the call
    match_dates,    \* what _find_weather_matching_dates returned
    match_result    \* how plan_weather_based_trip went on with these dates

score_vars == <<day, scores>>
sel_vars   == <<scored_days, days_needed, best_dates, sel_pc>>
day_vars   == <<style_config, plan_date, poi_answers, day_plan, day_pc>>
trip_vars  == <<pc, args, api_key, coords, geo_outcome, trip_days, dates,
                date_path, daily_plans, poi_failures, accommodation, result, calls, log,
                booking_answer>>
tool_vars  == <<tool_pc, tool_call, tool_exception, tool_result>>
conc_vars  == <<req_pc, agent_mcp_servers, server_open, last_use>>
match_vars == <<match_pc, match_call, match_dates, match_result>>
vars == <<day, scores, scored_days, days_needed, best_dates, sel_pc,
          style_config, plan_date, poi_answers, day_plan, day_pc,
          pc, args, api_key, coords, geo_outcome, trip_days, dates,
          date_path, daily_plans, poi_failures, accommodation, result, calls, log,
          booking_answer, tool_pc, tool_call, tool_exception, tool_result,
          req_pc, agent_mcp_servers, server_open, last_use,
          match_pc, match_call, match_dates, match_result>>

Min(a, b) == IF a < b THEN a ELSE b
Max(a, b) == IF a > b THEN a ELSE b

(***************************************************************************)
(* Forecast scorers                                                        *)
(***************************************************************************)

\* _mcp/servers/weather/constants.py (the mcp tree imports the same names)
TEMPERATURE_THRESHOLDS ==
    [extreme  |-> [min |-> 5,  max |-> 30, penalty |-> 30],
     moderate |-> [min |-> 10, max |-> 25, penalty |-> 15]]
WIND_THRESHOLDS ==
    [severe   |-> [speed |-> 40, penalty |-> 25],
     moderate |-> [speed |-> 30, penalty |-> 15]]
WEATHER_CODE_PENALTIES ==
    [snow    |-> [min |-> 70, penalty |-> 40],
     rain    |-> [min |-> 50, penalty |-> 30],
     drizzle |-> [min |-> 30, penalty |-> 20]]

\* Temperature penalty of WeatherService._calculate_day_score, in points.
TemperaturePenalty(max_temp, min_temp) ==
    IF max_temp > TEMPERATURE_THRESHOLDS.extreme.max
         \/ min_temp < TEMPERATURE_THRESHOLDS.extreme.min
    THEN TEMPERATURE_THRESHOLDS.extreme.penalty
    ELSE IF max_temp > TEMPERATURE_THRESHOLDS.moderate.max
              \/ min_temp < TEMPERATURE_THRESHOLDS.moderate.min
         THEN TEMPERATURE_THRESHOLDS.moderate.penalty
         ELSE 0

\* Wind penalty of WeatherService._calculate_day_score, in points.
WindPenalty(wind) ==
    IF wind > WIND_THRESHOLDS.severe.speed THEN WIND_THRESHOLDS.severe.penalty
    ELSE IF wind > WIND_THRESHOLDS.moderate.speed THEN WIND_THRESHOLDS.moderate.penalty
    ELSE 0

\* Weather code penalty of WeatherService._calculate_day_score, in points.
CodePenalty(weather_code) ==
    IF weather_code >= WEATHER_CODE_PENALTIES.snow.min THEN WEATHER_CODE_PENALTIES.snow.penalty
    ELSE IF weather_code >= WEATHER_CODE_PENALTIES.rain.min THEN WEATHER_CODE_PENALTIES.rain.penalty
    ELSE IF weather_code >= WEATHER_CODE_PENALTIES.drizzle.min THEN WEATHER_CODE_PENALTIES.drizzle.penalty
    ELSE 0

\* Mutant of CappedAmountHalf: rain above the cap costs nothing.
CappedAmountHalf_DroppedAboveCap(precip_tenths) ==
    IF precip_tenths > 50 THEN 0 ELSE 2 * precip_tenths

\* min(50.0, precip_sum * 10.0) of the mcp copy, in half points.
CappedAmountHalf(precip_tenths) == 2 * Min(50, precip_tenths)

\* min(30.0, precip_prob / 2.0) of the mcp copy, in half points.
CappedProbHalf(precip_prob) == Min(60, precip_prob)

\* Precipitation terms of the mcp copy, in half points:
\* min(50.0, precip_sum * 10.0) and min(30.0, precip_prob / 2.0).
CappedPrecipHalf(precip_tenths, precip_prob) ==
    CappedAmountHalf(precip_tenths) + CappedProbHalf(precip_prob)

\* precip_sum * 10.0 of the _mcp copy and of the trip planner, in half
\* points.
UncappedAmountHalf(precip_tenths) == 2 * precip_tenths

\* precip_prob / 2.0 of the _mcp copy and of the trip planner, in half
\* points.
UncappedProbHalf(precip_prob) == precip_prob

\* Precipitation terms of the _mcp copy and of the trip planner, in half
\* points: precip_sum * 10.0 and precip_prob / 2.0, no cap.
UncappedPrecipHalf(precip_tenths, precip_prob) ==
    UncappedAmountHalf(precip_tenths) + UncappedProbHalf(precip_prob)

\* int(max(0.0, score)): floor at zero, then truncate to whole points.
\* The argument is in half points, the result in points.
IntFloorZero(score_half) == Max(0, score_half) \div 2

\* mcp/servers/weather/service.py: WeatherService._calculate_day_score.
\* Result in points (an int).
mcp_calculate_day_score(max_temp, min_temp, precip_tenths, precip_prob, wind, weather_code) ==
    IntFloorZero(200
                 - 2 * TemperaturePenalty(max_temp, min_temp)
                 - CappedPrecipHalf(precip_tenths, precip_prob)
                 - 2 * WindPenalty(wind)
                 - 2 * CodePenalty(weather_code))

\* _mcp/servers/weather/service.py: WeatherService._calculate_day_score.
\* Result in points (an int).
_mcp_calculate_day_score(max_temp, min_temp, precip_tenths, precip_prob, wind, weather_code) ==
    IntFloorZero(200
                 - 2 * TemperaturePenalty(max_temp, min_temp)
                 - UncappedPrecipHalf(precip_tenths, precip_prob)
                 - 2 * WindPenalty(wind)
                 - 2 * CodePenalty(weather_code))

\* Penalties of TripPlannerService._calculate_weather_score, in points.
TripMaxTempPenalty(max_temp) ==
    IF max_temp > 35 \/ max_temp < 5 THEN 30
    ELSE IF max_temp > 30 \/ max_temp < 10 THEN 15
    ELSE 0

TripMinTempPenalty(min_temp) ==
    IF min_temp < 0 THEN 20
    ELSE IF min_temp < 5 THEN 10
    ELSE 0

TripWindPenalty(wind_speed) ==
    IF wind_speed > 50 THEN 25
    ELSE IF wind_speed > 30 THEN 10
    ELSE 0

TripCodePenalty(weather_code) ==
    IF weather_code >= 95 THEN 30
    ELSE IF weather_code >= 71 THEN 25
    ELSE IF weather_code >= 61 THEN 20
    ELSE IF weather_code >= 51 THEN 10
    ELSE 0

\* Mutant of FloorZero: the floor at zero is forgotten.
FloorZero_NoFloor(score_half) == score_half

\* max(0.0, score): the floor of _calculate_weather_score, in half points.
FloorZero(score_half) == Max(0, score_half)

\* TripPlannerService._calculate_weather_score.  The code returns a float;
\* the result here is that float in HALF points.
_calculate_weather_score(max_temp, min_temp, precip_tenths, precip_prob, wind_speed, weather_code) ==
    FloorZero(200
              - 2 * TripMaxTempPenalty(max_temp)
              - 2 * TripMinTempPenalty(min_temp)
              - UncappedPrecipHalf(precip_tenths, precip_prob)
              - 2 * TripWindPenalty(wind_speed)
              - 2 * TripCodePenalty(weather_code))

(***************************************************************************)
(* Scorer harness: Init draws a DailyForecast, ScoreDay applies the three  *)
(* scorers to it.                                                          *)
(***************************************************************************)

MaxTemps     == {3, 7, 22, 27, 32, 36}
MinTemps     == {-2, 2, 7, 14}
PrecipTenths == {0, 1, 20, 50, 51, 120}
PrecipProbs  == {0, 1, 60, 61, 100}
Winds        == {10, 31, 41, 51}
WeatherCodes == {0, 30, 50, 51, 61, 70, 71, 95}

DailyForecasts ==
    [max_temp : MaxTemps, min_temp : MinTemps, precip_tenths : PrecipTenths,
     precip_prob : PrecipProbs, wind : Winds, weather_code : WeatherCodes]

\* What a scorer took off for temperature (points) and for the
\* precipitation amount and probability (half points).
NoTerms == [temperature |-> 0, precip_amount_half |-> 0, precip_prob_half |-> 0]

NoScores ==
    [scored |-> FALSE, mcp |-> 0, _mcp |-> 0, trip_half |-> 0,
     mcp_terms |-> NoTerms, _mcp_terms |-> NoTerms, trip_terms |-> NoTerms]

\* The three scorers applied to one DailyForecast.
ScoresOf(d) ==
    [scored    |-> TRUE,
     mcp       |-> mcp_calculate_day_score(d.max_temp, d.min_temp, d.precip_tenths,
                                           d.precip_prob, d.wind, d.weather_code),
     _mcp      |-> _mcp_calculate_day_score(d.max_temp, d.min_temp, d.precip_tenths,
                                            d.precip_prob, d.wind, d.weather_code),
     trip_half |-> _calculate_weather_score(d.max_temp, d.min_temp, d.precip_tenths,
                                            d.precip_prob, d.wind, d.weather_code),
     mcp_terms  |-> [temperature        |-> TemperaturePenalty(d.max_temp, d.min_temp),
                     precip_amount_half |-> CappedAmountHalf(d.precip_tenths),
                     precip_prob_half   |-> CappedProbHalf(d.precip_prob)],
     _mcp_terms |-> [temperature        |-> TemperaturePenalty(d.max_temp, d.min_temp),
                     precip_amount_half |-> UncappedAmountHalf(d.precip_tenths),
                     precip_prob_half   |-> UncappedProbHalf(d.precip_prob)],
     trip_terms |-> [temperature        |-> TripMaxTempPenalty(d.max_temp)
                                              + TripMinTempPenalty(d.min_temp),
                     precip_amount_half |-> UncappedAmountHalf(d.precip_tenths),
                     precip_prob_half   |-> UncappedProbHalf(d.precip_prob)]]

ScoreDay ==
    /\ ~scores.scored
    /\ scores' = ScoresOf(day)
    /\ UNCHANGED <<day, sel_vars, day_vars, trip_vars, tool_vars, conc_vars, match_vars>>

(***************************************************************************)
(* Consecutive-window selector                                             *)
(***************************************************************************)

\* sorted(scored_days, key=lambda x: x["date"]): stable, ascending by date.
\* InsertByDate puts x after every element whose date is <= x.date.
RECURSIVE InsertByDate(_, _)
InsertByDate(sorted, x) ==
    IF sorted = <<>> THEN <<x>>
    ELSE IF Head(sorted).date > x.date THEN <<x>> \o sorted
    ELSE <<Head(sorted)>> \o InsertByDate(Tail(sorted), x)

RECURSIVE SortedByDate(_)
SortedByDate(seq) ==
    IF seq = <<>> THEN <<>>
    ELSE InsertByDate(SortedByDate(SubSeq(seq, 1, Len(seq) - 1)), seq[Len(seq)])

\* scored_days.sort(key=lambda x: x["score"], reverse=True): stable,
\* descending by score.
RECURSIVE InsertByScoreDesc(_, _)
InsertByScoreDesc(sorted, x) ==
    IF sorted = <<>> THEN <<x>>
    ELSE IF Head(sorted).score < x.score THEN <<x>> \o sorted
    ELSE <<Head(sorted)>> \o InsertByScoreDesc(Tail(sorted), x)

RECURSIVE SortedByScoreDesc(_)
SortedByScoreDesc(seq) ==
    IF seq = <<>> THEN <<>>
    ELSE InsertByScoreDesc(SortedByScoreDesc(SubSeq(seq, 1, Len(seq) - 1)), seq[Len(seq)])

\* Mutant of Consecutive: the date check is left out.
Consecutive_Unchecked(s, i, n) == i + n <= Len(s)

\* The dates of the window of n days that starts at 0-based index i of s
\* are consecutive (the inner loop over j of _find_best_consecutive_days).
Consecutive(s, i, n) ==
    \A j \in 1..(n - 1) : s[i + j + 1].date - s[i + j].date = 1

RECURSIVE SumScores(_, _, _)
\* sum(sorted_by_date[i + k]["score"] for k in range(n))
SumScores(s, i, n) ==
    IF n = 0 THEN 0 ELSE s[i + n].score + SumScores(s, i, n - 1)

\* The loop "for i in range(len(sorted_by_date) - days_needed + 1)":
\* best is [score |-> best_score, start |-> best_start_idx].
RECURSIVE BestWindowScan(_, _, _, _)
BestWindowScan(s, n, i, best) ==
    IF i > Len(s) - n THEN best
    ELSE LET total == SumScores(s, i, n)
             next  == IF Consecutive(s, i, n) /\ total > best.score
                      THEN [score |-> total, start |-> i]
                      ELSE best
         IN  BestWindowScan(s, n, i + 1, next)

\* What _find_best_consecutive_days returns once the scan is over.
WindowResult(s, n, best) ==
    IF best.score > 0
    THEN [i \in 1..n |-> s[best.start + i].date]
    ELSE <<>>

\* Mutant of _find_best_consecutive_days: with fewer days than needed it
\* returns the days there are instead of nothing.
_find_best_consecutive_days_truncating(sd, n) ==
    LET sorted_by_date == SortedByDate(sd)
    IN  IF Len(sd) < n
        THEN [i \in 1..Len(sd) |-> sorted_by_date[i].date]
        ELSE WindowResult(sorted_by_date, n,
                          BestWindowScan(sorted_by_date, n, 0, [score |-> 0, start |-> 0]))

\* TripPlannerService._find_best_consecutive_days; <<>> is the empty list.
_find_best_consecutive_days(sd, n) ==
    IF Len(sd) < n THEN <<>>
    ELSE LET sorted_by_date == SortedByDate(sd)
         IN  WindowResult(sorted_by_date, n,
                          BestWindowScan(sorted_by_date, n, 0, [score |-> 0, start |-> 0]))

(***************************************************************************)
(* Date selection from the forecast                                        *)
(***************************************************************************)

\* The day datetime.now() falls on; the forecast provider's first day.
Today == 1

\* The forecast window of _select_optimal_dates: get_forecast_data(.., 14)
\* and range(min(len(times), 14)).
FORECAST_DAYS == 14

\* Mutant of TomorrowDates: the range ends one day early.
TomorrowDates_OneShort(days) == [i \in 1..(days - 1) |-> Today + 1 + (i - 1)]

\* [base_date + timedelta(days=i) for i in range(days)] with
\* base_date = datetime.now() + timedelta(days=1).
TomorrowDates(days) == [i \in 1..days |-> Today + 1 + (i - 1)]

\* "xs[i] if i < len(xs) else default" for the per-day forecast lists; the
\* six lists are kept as one list of records, so they run out together.
WeatherAt(weather, i) ==
    IF i <= Len(weather) THEN weather[i]
    ELSE [max_temp |-> 20, min_temp |-> 10, precip_tenths |-> 0,
          precip_prob |-> 0, wind |-> 0, weather_code |-> 0]

\* The scoring loop of _select_optimal_dates, then the sort by score.
ScoredForecast(daily) ==
    SortedByScoreDesc(
        [i \in 1..Min(Len(daily.time), FORECAST_DAYS) |->
            LET w == WeatherAt(daily.weather, i)
            IN  [date  |-> daily.time[i],
                 score |-> _calculate_weather_score(w.max_temp, w.min_temp, w.precip_tenths,
                                                    w.precip_prob, w.wind, w.weather_code)]])

\* "best_dates if best_dates else [tomorrow ...]" at the end of
\* _select_optimal_dates.
WindowOrFallback(found, days) ==
    IF found # <<>>
    THEN [dates |-> found, path |-> "window"]
    ELSE [dates |-> TomorrowDates(days), path |-> "fallback_no_window"]

\* TripPlannerService._select_optimal_dates.  forecast is the answer of
\* weather_service.get_forecast_data: kind "error_string", "raises" (any
\* exception inside the try block) or "data" with its daily lists.
\* The result also carries the locals scored_days and best_dates.
_select_optimal_dates(forecast, days) ==
    IF forecast.kind = "error_string"
    THEN [dates |-> TomorrowDates(days), path |-> "fallback_error",
          scored |-> <<>>, found |-> <<>>, selected |-> FALSE]
    ELSE IF forecast.kind = "raises"
    THEN [dates |-> TomorrowDates(days), path |-> "fallback_exception",
          scored |-> <<>>, found |-> <<>>, selected |-> FALSE]
    ELSE IF forecast.daily.time = <<>>
    THEN [dates |-> TomorrowDates(days), path |-> "fallback_no_data",
          scored |-> <<>>, found |-> <<>>, selected |-> FALSE]
    ELSE LET sd    == ScoredForecast(forecast.daily)
             found == _find_best_consecutive_days(sd, days)
             w     == WindowOrFallback(found, days)
         IN  [dates |-> w.dates, path |-> w.path,
              scored |-> sd, found |-> found, selected |-> TRUE]

(***************************************************************************)
(* Activity slotter                                                        *)
(***************************************************************************)

\* trip_planner/constants.py: TRIP_STYLES
TRIP_STYLES ==
    [relaxed      |-> [activities_per_day |-> 2, travel_radius |-> 10000,
                       preferred_types |-> <<"restaurant", "cafe", "park", "museum", "spa">>],
     balanced     |-> [activities_per_day |-> 3, travel_radius |-> 15000,
                       preferred_types |-> <<"tourist_attraction", "restaurant", "museum",
                                             "park", "shopping_mall">>],
     adventure    |-> [activities_per_day |-> 4, travel_radius |-> 25000,
                       preferred_types |-> <<"tourist_attraction", "amusement_park", "zoo",
                                             "park", "sport_center">>],
     cultural     |-> [activities_per_day |-> 3, travel_radius |-> 20000,
                       preferred_types |-> <<"museum", "art_gallery", "church",
                                             "tourist_attraction", "restaurant">>],
     food_focused |-> [activities_per_day |-> 4, travel_radius |-> 15000,
                       preferred_types |-> <<"restaurant", "cafe", "bakery", "bar", "market">>]]

StyleNames == DOMAIN TRIP_STYLES

\* What places_service.search_places_data can do for one query.
PoiOutcomes == {"results", "empty", "error_string", "raises"}

NoActivity == [type |-> "none", time |-> "none"]

\* TripPlannerService._get_activity_for_time: the first place of a
\* non-empty result list, tagged with the time period; None otherwise.
_get_activity_for_time(activity_type, time_period, outcome) ==
    IF outcome = "results"
    THEN [type |-> activity_type, time |-> time_period]
    ELSE NoActivity

\* Mutant of AppendIfAny: the activity is put in front of the list.
AppendIfAny_InFront(activities, activity) ==
    IF activity # NoActivity THEN <<activity>> \o activities ELSE activities

\* "if activity: day_activities.append(activity)"
AppendIfAny(activities, activity) ==
    IF activity # NoActivity THEN Append(activities, activity) ELSE activities

IsMorningType(t) == t \in {"cafe", "museum", "park", "tourist_attraction"}

\* [t for t in preferred_types if t in ["cafe", "museum", "park", "tourist_attraction"]]
MorningTypes(preferred_types) == SelectSeq(preferred_types, IsMorningType)

\* range(min(activities_count - 1, 2)): the number of afternoon queries.
AfternoonCount(activities_count) == Min(activities_count - 1, 2)

\* The queries _plan_single_day sends, in order: [type, time] each.
DayQueries(cfg) ==
    LET morning   == IF MorningTypes(cfg.preferred_types) # <<>>
                     THEN <<[type |-> MorningTypes(cfg.preferred_types)[1], time |-> "morning"]>>
                     ELSE <<>>
        afternoon == [i \in 1..AfternoonCount(cfg.activities_per_day) |->
                        [type |-> cfg.preferred_types[((i - 1) % Len(cfg.preferred_types)) + 1],
                         time |-> "afternoon"]]
        evening   == <<[type |-> "restaurant", time |-> "evening"]>>
    IN  morning \o afternoon \o evening

RECURSIVE CollectActivities(_, _, _)
\* day_activities after the first k queries were answered by answers[1..k].
CollectActivities(queries, answers, k) ==
    IF k = 0 THEN <<>>
    ELSE AppendIfAny(CollectActivities(queries, answers, k - 1),
                     _get_activity_for_time(queries[k].type, queries[k].time, answers[k]))

\* date.strftime("%A")
DayName(date) ==
    <<"Sunday", "Monday", "Tuesday", "Wednesday", "Thursday", "Friday", "Saturday">>[(date % 7) + 1]

\* TripPlannerService._plan_single_day; answers[k] is the collaborator's
\* answer to the k-th query of the day.
_plan_single_day(date, cfg, answers) ==
    LET queries        == DayQueries(cfg)
        day_activities == CollectActivities(queries, answers, Len(queries))
    IN  [date |-> date, day_name |-> DayName(date),
         activities |-> day_activities, total_activities |-> Len(day_activities)]

\* Number of places queries a day of this style makes.
QueriesPerDay(cfg) == Len(DayQueries(cfg))

(***************************************************************************)
(* plan_trip: arguments, validation, collaborators                         *)
(***************************************************************************)

\* trip_planner/constants.py
TRIP_DURATIONS == [weekend |-> 2, short |-> 3, week |-> 7, extended |-> 14, month |-> 30]
DEFAULT_TRIP_DURATION == 3
MIN_TRIP_DURATION == 1
MAX_TRIP_DURATION == 30
BUDGET_CATEGORIES == {"budget", "mid_range", "luxury"}

\* Python's None where the code expects a number (a coordinate, a day
\* count); chosen outside every valid range.
None == 1000

\* int(s) raised ValueError: s.isdigit() holds for a superscript digit
\* such as the one-character string U+00B2, which int() rejects.
ValueErrorRaised == 1001

\* "not x" for a number or None.
Falsy(x) == x = None \/ x = 0

\* The duration strings of the model with what str.isdigit(), int() and
\* str.lower() give for each.
DurationStrings ==
    [weekend  |-> [isdigit |-> FALSE, int |-> 0,  lower |-> "weekend"],
     WEEKEND  |-> [isdigit |-> FALSE, int |-> 0,  lower |-> "weekend"],
     Week     |-> [isdigit |-> FALSE, int |-> 0,  lower |-> "week"],
     short    |-> [isdigit |-> FALSE, int |-> 0,  lower |-> "short"],
     extended |-> [isdigit |-> FALSE, int |-> 0,  lower |-> "extended"],
     month    |-> [isdigit |-> FALSE, int |-> 0,  lower |-> "month"],
     fortnight|-> [isdigit |-> FALSE, int |-> 0,  lower |-> "fortnight"],
     d2       |-> [isdigit |-> TRUE,  int |-> 2,  lower |-> "d2"],
     d0       |-> [isdigit |-> TRUE,  int |-> 0,  lower |-> "d0"],
     d31      |-> [isdigit |-> TRUE,  int |-> 31, lower |-> "d31"],
     sup2     |-> [isdigit |-> TRUE,  int |-> ValueErrorRaised, lower |-> "sup2"]]

NoDuration   == [kind |-> "none", int |-> 0, str |-> ""]
IntDuration(n) == [kind |-> "int", int |-> n, str |-> ""]
StrDuration(s) == [kind |-> "str", int |-> 0, str |-> s]

\* TripPlannerService._parse_duration; None when the input is invalid,
\* ValueErrorRaised when int(duration) raises.
_parse_duration(duration) ==
    IF duration.kind = "none" THEN DEFAULT_TRIP_DURATION
    ELSE IF duration.kind = "int"
    THEN IF MIN_TRIP_DURATION <= duration.int /\ duration.int <= MAX_TRIP_DURATION
         THEN duration.int ELSE None
    ELSE IF DurationStrings[duration.str].isdigit
    THEN LET days == DurationStrings[duration.str].int
         IN  IF days = ValueErrorRaised THEN ValueErrorRaised
             ELSE IF MIN_TRIP_DURATION <= days /\ days <= MAX_TRIP_DURATION THEN days
             ELSE None
    ELSE IF DurationStrings[duration.str].lower \in DOMAIN TRIP_DURATIONS
    THEN TRIP_DURATIONS[DurationStrings[duration.str].lower]
    ELSE None

\* What the geocoding request of get_coordinates can meet.
GeoKinds == {"zero_results", "failed", "found"}

\* BaseService.get_coordinates: <<lat, lng>> of the first result, and
\* <<None, None>> both for an empty result list and for any exception.
get_coordinates(geo) ==
    IF geo.kind = "found" THEN <<geo.lat, geo.lng>> ELSE <<None, None>>

\* A start_date argument: None, "", a string strptime rejects, or a
\* well-formed YYYY-MM-DD string (day is the date it denotes).
NoStartDate      == [kind |-> "none", day |-> 0]
EmptyStartDate   == [kind |-> "empty", day |-> 0]
MalformedDate    == [kind |-> "malformed", day |-> 0]
YmdDate(d)       == [kind |-> "ymd", day |-> d]

\* "if start_date:" is true for a non-empty string only.
StartDateGiven(sd) == sd.kind \in {"malformed", "ymd"}

\* Mutant of ExplicitDates: the range starts one day after the start date.
ExplicitDates_FromNextDay(start_dt, days) == [i \in 1..days |-> start_dt + i]

\* [start_dt + timedelta(days=i) for i in range(trip_days)]
ExplicitDates(start_dt, days) == [i \in 1..days |-> start_dt + (i - 1)]

NoOffer == [name |-> "None"]

\* "if include_accommodation and self.booking_service.api_key:"
WantsAccommodation(include_accommodation, key) == include_accommodation /\ key

\* What booking_service.search_accommodations_data can do.
BookingOutcomes == {"results", "empty", "error_string", "raises"}

\* One entry of the list search_accommodations_data returns.
SearchResult(name, amount) == [name |-> name, amount |-> amount]

\* What search_accommodations_data answered: kind is one of
\* BookingOutcomes, results is the list when there is one.
BookingAnswer(kind, results) == [kind |-> kind, results |-> results]
NoAnswer == BookingAnswer("none", <<>>)

\* Mutant of FirstResult: the last entry of the list is taken.
FirstResult_Last(results) == results[Len(results)]

\* "accommodation = accommodations_data[0]"
FirstResult(results) == results[1]

\* TripPlannerService._get_accommodation_suggestions; answer is what
\* booking_service.search_accommodations_data does when called.
_get_accommodation_suggestions(key, check_in, nights, answer) ==
    IF ~key THEN NoOffer
    ELSE IF answer.kind = "results" /\ answer.results # <<>>
    THEN LET first == FirstResult(answer.results)
         IN  [name |-> first.name,
              price_per_night |-> first.amount,
              total_cost |-> first.amount * nights,
              check_in |-> check_in, check_out |-> check_in + nights, nights |-> nights]
    ELSE NoOffer

\* The keys _format_trip_plan reads from the accommodation dict, and the
\* keys _get_accommodation_suggestions puts into it.
AccommodationKeysRead == {"check_in", "check_out", "nights", "suggestions"}
AccommodationKeysWritten ==
    {"name", "rating", "price_per_night", "currency", "total_cost",
     "check_in", "check_out", "nights"}

\* Mutant of _format_trip_plan: days without activities get no entry.
_format_trip_plan_skipping_empty_days(location, ds, plans, acc, trip_style, budget) ==
    LET HasActivities(p) == p.activities # <<>>
    IN  IF acc # NoOffer /\ ~(AccommodationKeysRead \subseteq AccommodationKeysWritten)
        THEN [kind |-> "exception", error |-> "KeyError"]
        ELSE [kind   |-> "report",
              header |-> [location |-> location, start_date |-> ds[1], end_date |-> ds[Len(ds)],
                          duration |-> Len(ds), style |-> trip_style, budget |-> budget],
              accommodation |-> acc,
              itinerary     |-> SelectSeq(plans, HasActivities),
              notes         |-> TRUE]

\* TripPlannerService._format_trip_plan: the sections of the report, or
\* the KeyError of reading a key the accommodation dict does not have.
_format_trip_plan(location, ds, plans, acc, trip_style, budget) ==
    IF acc # NoOffer /\ ~(AccommodationKeysRead \subseteq AccommodationKeysWritten)
    THEN [kind |-> "exception", error |-> "KeyError"]
    ELSE [kind   |-> "report",
          header |-> [location |-> location, start_date |-> ds[1], end_date |-> ds[Len(ds)],
                      duration |-> Len(ds), style |-> trip_style, budget |-> budget],
          accommodation |-> acc,
          itinerary     |-> plans,
          notes         |-> TRUE]

Message(text) == [kind |-> "message", text |-> text]

\* f"Invalid duration. Use number of days (1-{MAX_TRIP_DURATION}) or preset
\* ({', '.join(TRIP_DURATIONS.keys())})"
InvalidDurationMessage ==
    [kind |-> "message", text |-> "invalid_duration",
     max |-> MAX_TRIP_DURATION, available |-> DOMAIN TRIP_DURATIONS]

\* Mutant of InvalidTripStyleMessage: the message names no style.
InvalidTripStyleMessage_NoList(trip_style) ==
    [kind |-> "message", text |-> "invalid_trip_style",
     value |-> trip_style, available |-> {}]

\* f"Invalid trip style '{trip_style}'. Available: {available_styles}" with
\* available_styles = ", ".join(TRIP_STYLES.keys())
InvalidTripStyleMessage(trip_style) ==
    [kind |-> "message", text |-> "invalid_trip_style",
     value |-> trip_style, available |-> DOMAIN TRIP_STYLES]

\* f"Invalid budget category '{budget}'. Available: {available_budgets}"
InvalidBudgetMessage(budget) ==
    [kind |-> "message", text |-> "invalid_budget",
     value |-> budget, available |-> BUDGET_CATEGORIES]
NoResult == [kind |-> "none"]

(***************************************************************************)
(* Bounds and input sets                                                   *)
(***************************************************************************)

\* Largest date of the selector harness's free-form inputs.
MaxDate == 5
\* Longest forecast whose days vary freely in plan_trip's date selection.
MaxVariedLen == 3
\* Places queries that may fail on the one day of a plan_trip run on which
\* single queries fail; a run in which every query fails is always possible.
MaxPoiFailures == 1

\* Scores (half points) of the selector harness: 0, 30 and 100 points.
ScoreLevels == {0, 60, 200}
Absent == -1

RECURSIVE DaysOf(_, _)
\* The scored days of dates 1..n, in date order; f[d] = Absent leaves d out.
DaysOf(f, n) ==
    IF n = 0 THEN <<>>
    ELSE IF f[n] = Absent THEN DaysOf(f, n - 1)
    ELSE Append(DaysOf(f, n - 1), [date |-> n, score |-> f[n]])

\* Inputs of the selector harness: free-form days with gaps, in date order
\* or in the score order _select_optimal_dates hands over, and every
\* contiguous 14-day forecast whose days score 0 or 100.
SelectorInputs ==
    { [sd |-> IF by_score THEN SortedByScoreDesc(DaysOf(f, MaxDate)) ELSE DaysOf(f, MaxDate),
       n |-> n] :
        f \in [1..MaxDate -> ScoreLevels \cup {Absent}],
        n \in 1..(MaxDate + 1), by_score \in BOOLEAN }
    \cup
    { [sd |-> SortedByScoreDesc(DaysOf(f, FORECAST_DAYS)), n |-> n] :
        f \in [1..FORECAST_DAYS -> {0, 200}], n \in {3, 7} }

\* Weather of one forecast day in plan_trip's runs.
Mild    == [max_temp |-> 22, min_temp |-> 14, precip_tenths |-> 0,
            precip_prob |-> 0, wind |-> 10, weather_code |-> 1]
Showery == [max_temp |-> 22, min_temp |-> 14, precip_tenths |-> 20,
            precip_prob |-> 60, wind |-> 10, weather_code |-> 61]
Storm   == [max_temp |-> 12, min_temp |-> 8, precip_tenths |-> 120,
            precip_prob |-> 100, wind |-> 55, weather_code |-> 95]
WeatherKinds == {Mild, Showery, Storm}

\* The provider's dates: n consecutive days starting today.
TimesFrom(n) == [i \in 1..n |-> Today + (i - 1)]

ForecastData(weather, n) ==
    [kind |-> "data", daily |-> [time |-> TimesFrom(n), weather |-> weather]]

\* Answers of the forecast collaborator: an error string, an exception,
\* every forecast of up to MaxVariedLen days, forecasts of 14 and 16 days
\* made of two blocks of weather, and a 14-day forecast whose weather
\* lists are missing.
Forecasts ==
    { [kind |-> "error_string", daily |-> [time |-> <<>>, weather |-> <<>>]],
      [kind |-> "raises", daily |-> [time |-> <<>>, weather |-> <<>>]],
      ForecastData(<<>>, FORECAST_DAYS) }
    \cup UNION { { ForecastData(w, n) : w \in [1..n -> WeatherKinds] } : n \in 0..MaxVariedLen }
    \cup { ForecastData([i \in 1..n |-> IF i <= split THEN a ELSE b], n) :
             n \in {FORECAST_DAYS, 16}, split \in {0, 1, 5}, a \in WeatherKinds, b \in WeatherKinds }

NameLocation == [kind |-> "name", lat |-> 0, lng |-> 0]
CoordLocation(lat, lng) == [kind |-> "coords", lat |-> lat, lng |-> lng]
Locations == {NameLocation, CoordLocation(41, 12)}

GeoAnswers ==
    { [kind |-> "zero_results", lat |-> 0, lng |-> 0],
      [kind |-> "failed", lat |-> 0, lng |-> 0] }
    \cup { [kind |-> "found", lat |-> la, lng |-> ln] : la \in {0, 41}, ln \in {0, 12} }

Durations ==
    { NoDuration, IntDuration(0), IntDuration(1), IntDuration(15), IntDuration(31),
      StrDuration("weekend"), StrDuration("fortnight") }
Styles  == StyleNames \cup {"nonexistent"}
Budgets == {"mid_range", "moderate"}
StartDates == {NoStartDate, MalformedDate, YmdDate(Today + 4)}
Prices == {0, 80}

\* The answers of the accommodation search: a list of two results, the
\* second dearer than the first, or one of the failures.
BookingAnswers ==
    { BookingAnswer("results", <<SearchResult("hotel_a", p), SearchResult("hotel_b", p + 40)>>) :
        p \in Prices }
    \cup { BookingAnswer(k, <<>>) : k \in BookingOutcomes \ {"results"} }

TripArgs ==
    [location : Locations, start_date : StartDates, duration : Durations,
     trip_style : Styles, budget : Budgets, include_accommodation : BOOLEAN]

\* The duration arguments of the _parse_duration harness: None, the
\* integers around the range 1..30 and every string of DurationStrings.
AllDurations ==
    {NoDuration} \cup {IntDuration(n) : n \in -1..32}
    \cup {StrDuration(str) : str \in DOMAIN DurationStrings}

DurationArgs ==
    [location : {CoordLocation(41, 12)}, start_date : {NoStartDate},
     duration : AllDurations, trip_style : {"balanced", "nonexistent"},
     budget : Budgets, include_accommodation : {FALSE}]

\* run_agent.py: the two requests of the harness and the agent objects
\* the module imports once.
Requests  == {1, 2}
NoRequest == 0
Agents    == {"booking", "places", "planner", "weather"}
NoUse     == [request |-> NoRequest, agent |-> "none", server_of |-> NoRequest, open |-> FALSE]

\* Calls of _find_weather_matching_dates: a forecast answer, the wanted
\* weather condition and the number of days.
WeatherConditions == {"sunny", "rainy", "snowy"}
MatchCalls ==
    [forecast : Forecasts, weather_condition : WeatherConditions, days : 1..2]

(***************************************************************************)
(* Initial values                                                          *)
(***************************************************************************)

NoPlan == [date |-> 0, day_name |-> "", activities |-> <<>>, total_activities |-> 0]
NoCalls == [geocode |-> 0, forecast |-> 0, places |-> 0, booking |-> 0]

ScoreIdle == day = Mild /\ scores = NoScores
SelIdle   == scored_days = <<>> /\ days_needed = 0 /\ best_dates = <<>> /\ sel_pc = "idle"
DayIdle   == /\ style_config = "none" /\ plan_date = 0 /\ poi_answers = <<>>
             /\ day_plan = NoPlan /\ day_pc = "idle"
TripIdle  == /\ pc = "idle" /\ args = [none |-> TRUE] /\ api_key = FALSE
             /\ coords = <<None, None>> /\ geo_outcome = "none" /\ trip_days = None
             /\ dates = <<>> /\ date_path = "none" /\ daily_plans = <<>>
             /\ poi_failures = 0 /\ accommodation = NoOffer
             /\ result = NoResult /\ calls = NoCalls /\ log = <<>>
             /\ booking_answer = NoAnswer
ConcIdle  == /\ req_pc = [r \in Requests |-> "idle"]
             /\ agent_mcp_servers = [a \in Agents |-> NoRequest]
             /\ server_open = [r \in Requests |-> FALSE]
             /\ last_use = NoUse
MatchIdle == /\ match_pc = "idle" /\ match_call = [none |-> TRUE]
             /\ match_dates = <<>> /\ match_result = "none"
OthersIdle == ConcIdle /\ MatchIdle
ToolIdle  == /\ tool_pc = "idle" /\ tool_call = [tool |-> "none"]
             /\ tool_exception = [type |-> "none", text |-> "", about |-> {}]
             /\ tool_result = NoResult

(***************************************************************************)
(* Harnesses of the pure functions                                         *)
(***************************************************************************)

InitScore ==
    /\ day \in DailyForecasts /\ scores = NoScores
    /\ SelIdle /\ DayIdle /\ TripIdle /\ ToolIdle /\ OthersIdle
NextScore == ScoreDay
SpecScore == InitScore /\ [][NextScore]_vars

FindBestConsecutiveDays ==
    /\ sel_pc = "input"
    /\ best_dates' = _find_best_consecutive_days(scored_days, days_needed)
    /\ sel_pc' = "returned"
    /\ UNCHANGED <<scored_days, days_needed, score_vars, day_vars, trip_vars,
                   tool_vars, conc_vars, match_vars>>

InitWindow ==
    /\ \E in \in SelectorInputs : scored_days = in.sd /\ days_needed = in.n
    /\ best_dates = <<>> /\ sel_pc = "input"
    /\ ScoreIdle /\ DayIdle /\ TripIdle /\ ToolIdle /\ OthersIdle
NextWindow == FindBestConsecutiveDays
SpecWindow == InitWindow /\ [][NextWindow]_vars

PlanSingleDay ==
    /\ day_pc = "input"
    /\ day_plan' = _plan_single_day(plan_date, TRIP_STYLES[style_config], poi_answers)
    /\ day_pc' = "returned"
    /\ UNCHANGED <<style_config, plan_date, poi_answers, score_vars, sel_vars, trip_vars,
                   tool_vars, conc_vars, match_vars>>

InitDay ==
    /\ style_config \in StyleNames
    /\ plan_date \in {Today + 1, Today + 2}
    /\ poi_answers \in [1..QueriesPerDay(TRIP_STYLES[style_config]) -> PoiOutcomes]
    /\ day_plan = NoPlan /\ day_pc = "input"
    /\ ScoreIdle /\ SelIdle /\ TripIdle /\ ToolIdle /\ OthersIdle
NextDay == PlanSingleDay
SpecDay == InitDay /\ [][NextDay]_vars

(***************************************************************************)
(* plan_trip as a step machine                                             *)
(***************************************************************************)

FailedOutcomes == PoiOutcomes \ {"results"}

\* The sets of queries of one day (numbered 1..q) that fail: at most k.
RECURSIVE SetsUpTo(_, _)
SetsUpTo(q, k) ==
    IF k = 0 THEN {{}}
    ELSE LET smaller == SetsUpTo(q, k - 1)
         IN  smaller \cup {s \cup {c} : s \in smaller, c \in 1..q}

\* How the places collaborator fails in one run: bad_day = 0 and all =
\* FALSE is a run without failures; all = TRUE fails every query of the
\* run; otherwise the queries in failing fail on day bad_day.
FailurePatterns(n_days, q) ==
    { [all |-> TRUE, bad_day |-> 0, failing |-> {}] }
    \cup { [all |-> FALSE, bad_day |-> d, failing |-> f] :
             d \in 1..n_days, f \in SetsUpTo(q, MaxPoiFailures) }

\* The way the k-th query of day d fails when it does.
FailureOf(d, k) ==
    IF (d + k) % 3 = 0 THEN "empty" ELSE IF (d + k) % 3 = 1 THEN "error_string" ELSE "raises"

\* The collaborator's answers to the q queries of day d under a pattern.
AnswersOfDay(d, q, pattern) ==
    [k \in 1..q |-> IF pattern.all \/ (d = pattern.bad_day /\ k \in pattern.failing)
                    THEN FailureOf(d, k) ELSE "results"]

\* Number of queries that fail under a pattern.
FailureCount(n_days, q, pattern) ==
    IF pattern.all THEN n_days * q ELSE Cardinality(pattern.failing)

\* A caller invokes plan_trip; the environment fixes whether a booking
\* credential is configured.
Call ==
    /\ pc = "idle"
    /\ args' \in TripArgs
    /\ api_key' \in BOOLEAN
    /\ pc' = "ResolvingLocation"
    /\ UNCHANGED <<coords, geo_outcome, trip_days, dates, date_path, daily_plans,
                   poi_failures, accommodation, result, calls>>
    /\ UNCHANGED <<score_vars, sel_vars, day_vars, tool_vars, conc_vars, match_vars,
                   log, booking_answer>>

\* Lines 65-73: resolve a place name through the geocoder, or unpack the
\* coordinate pair the caller passed.
ResolveLocation ==
    /\ pc = "ResolvingLocation"
    /\ IF args.location.kind = "name"
       THEN \E geo \in GeoAnswers :
              LET ll == get_coordinates(geo)
              IN  /\ geo_outcome' = geo.kind
                  /\ calls' = [calls EXCEPT !.geocode = @ + 1]
                  /\ coords' = ll
                  /\ log' = IF geo.kind = "failed"
                            THEN Append(log, "Error in geocoding") ELSE log
                  /\ IF Falsy(ll[1]) \/ Falsy(ll[2])
                     THEN /\ result' = Message("location_not_found")
                          /\ pc' = "Failed"
                     ELSE /\ pc' = "ValidatingInput"
                          /\ UNCHANGED result
       ELSE /\ coords' = <<args.location.lat, args.location.lng>>
            /\ pc' = "ValidatingInput"
            /\ UNCHANGED <<geo_outcome, calls, result, log>>
    /\ UNCHANGED <<args, api_key, trip_days, dates, date_path, daily_plans,
                   poi_failures, accommodation>>
    /\ UNCHANGED <<score_vars, sel_vars, day_vars, tool_vars, conc_vars, match_vars,
                   booking_answer>>

\* Lines 75-87: duration, trip style and budget, in this order.
ValidateInput ==
    /\ pc = "ValidatingInput"
    /\ trip_days' = _parse_duration(args.duration)
    /\ IF trip_days' = ValueErrorRaised
       THEN result' = [kind |-> "exception", error |-> "ValueError"] /\ pc' = "Raised"
       ELSE IF Falsy(trip_days')
       THEN result' = InvalidDurationMessage /\ pc' = "Failed"
       ELSE IF args.trip_style \notin DOMAIN TRIP_STYLES
       THEN result' = InvalidTripStyleMessage(args.trip_style) /\ pc' = "Failed"
       ELSE IF args.budget \notin BUDGET_CATEGORIES
       THEN result' = InvalidBudgetMessage(args.budget) /\ pc' = "Failed"
       ELSE pc' = "SelectingDates" /\ UNCHANGED result
    /\ UNCHANGED <<args, api_key, coords, geo_outcome, dates, date_path,
                   daily_plans, poi_failures, accommodation, calls>>
    /\ UNCHANGED <<score_vars, sel_vars, day_vars, tool_vars, conc_vars, match_vars,
                   log, booking_answer>>

\* Lines 89-95: the caller's start date.
SelectExplicitDates ==
    /\ pc = "SelectingDates"
    /\ StartDateGiven(args.start_date)
    /\ IF args.start_date.kind = "ymd"
       THEN /\ dates' = ExplicitDates(args.start_date.day, trip_days)
            /\ date_path' = "explicit"
            /\ pc' = "PlanningDays"
            /\ UNCHANGED result
       ELSE /\ result' = Message("invalid_dates")
            /\ pc' = "Failed"
            /\ UNCHANGED <<dates, date_path>>
    /\ UNCHANGED <<args, api_key, coords, geo_outcome, trip_days,
                   daily_plans, poi_failures, accommodation, calls>>
    /\ UNCHANGED <<score_vars, sel_vars, day_vars, tool_vars, conc_vars, match_vars,
                   log, booking_answer>>

\* Line 98: no start date, _select_optimal_dates runs.  scored_days,
\* days_needed and best_dates are its locals at the point where it returns.
SelectForecastDates ==
    /\ pc = "SelectingDates"
    /\ ~StartDateGiven(args.start_date)
    /\ \E forecast \in Forecasts :
         LET r == _select_optimal_dates(forecast, trip_days)
         IN  /\ calls' = [calls EXCEPT !.forecast = @ + 1]
             /\ scored_days' = r.scored
             /\ days_needed' = trip_days
             /\ best_dates' = r.found
             /\ sel_pc' = IF r.selected THEN "returned" ELSE "skipped"
             /\ dates' = r.dates
             /\ date_path' = r.path
    /\ pc' = "ForecastDatesSelected"
    /\ UNCHANGED <<args, api_key, coords, geo_outcome, trip_days,
                   daily_plans, poi_failures, accommodation, result>>
    /\ UNCHANGED <<score_vars, day_vars, tool_vars, conc_vars, match_vars,
                   log, booking_answer>>

\* Lines 98-100: back in plan_trip with the selected dates; the locals of
\* _select_optimal_dates are gone.
ReturnForecastDates ==
    /\ pc = "ForecastDatesSelected"
    /\ scored_days' = <<>> /\ days_needed' = 0 /\ best_dates' = <<>> /\ sel_pc' = "idle"
    /\ IF dates = <<>>
       THEN result' = Message("no_weather_data") /\ pc' = "Failed"
       ELSE pc' = "PlanningDays" /\ UNCHANGED result
    /\ UNCHANGED <<args, api_key, coords, geo_outcome, trip_days, dates, date_path,
                   daily_plans, poi_failures, accommodation, calls>>
    /\ UNCHANGED <<score_vars, day_vars, tool_vars, conc_vars, match_vars,
                   log, booking_answer>>

\* Lines 105-111, the loop over dates: every query of every day gets an
\* answer from the places collaborator.
PlanDays ==
    /\ pc = "PlanningDays"
    /\ LET cfg == TRIP_STYLES[args.trip_style]
           q   == QueriesPerDay(cfg)
       IN  \E pattern \in FailurePatterns(Len(dates), q) :
             /\ poi_failures' = FailureCount(Len(dates), q, pattern)
             /\ daily_plans' = [d \in 1..Len(dates) |->
                                  _plan_single_day(dates[d], cfg, AnswersOfDay(d, q, pattern))]
             /\ calls' = [calls EXCEPT !.places = @ + Len(dates) * q]
    /\ pc' = "SelectingAccommodation"
    /\ UNCHANGED <<args, api_key, coords, geo_outcome, trip_days, dates,
                   date_path, accommodation, result>>
    /\ UNCHANGED <<score_vars, sel_vars, day_vars, tool_vars, conc_vars, match_vars,
                   log, booking_answer>>

\* Lines 113-118 when the condition holds: the accommodation picker runs.
SelectAccommodation ==
    /\ pc = "SelectingAccommodation"
    /\ WantsAccommodation(args.include_accommodation, api_key)
    /\ \E answer \in BookingAnswers :
         /\ booking_answer' = answer
         /\ accommodation' = _get_accommodation_suggestions(api_key, dates[1], Len(dates),
                                                            answer)
    /\ calls' = [calls EXCEPT !.booking = IF api_key THEN @ + 1 ELSE @]
    /\ pc' = "Rendering"
    /\ UNCHANGED <<args, api_key, coords, geo_outcome, trip_days, dates,
                   date_path, daily_plans, poi_failures, result>>
    /\ UNCHANGED <<score_vars, sel_vars, day_vars, tool_vars, conc_vars, match_vars, log>>

\* Lines 113-118 when the condition fails: accommodation stays None.
SkipAccommodation ==
    /\ pc = "SelectingAccommodation"
    /\ ~WantsAccommodation(args.include_accommodation, api_key)
    /\ accommodation' = NoOffer
    /\ pc' = "Rendering"
    /\ UNCHANGED <<args, api_key, coords, geo_outcome, trip_days, dates,
                   date_path, daily_plans, poi_failures, result, calls>>
    /\ UNCHANGED <<score_vars, sel_vars, day_vars, tool_vars, conc_vars, match_vars,
                   log, booking_answer>>

\* Lines 120-123: _format_trip_plan returns the report or raises.
Render ==
    /\ pc = "Rendering"
    /\ result' = _format_trip_plan(args.location, dates, daily_plans, accommodation,
                                   args.trip_style, args.budget)
    /\ pc' = IF result'.kind = "report" THEN "Done" ELSE "Raised"
    /\ UNCHANGED <<args, api_key, coords, geo_outcome, trip_days, dates,
                   date_path, daily_plans, poi_failures, accommodation, calls>>
    /\ UNCHANGED <<score_vars, sel_vars, day_vars, tool_vars, conc_vars, match_vars,
                   log, booking_answer>>

Init == ScoreIdle /\ SelIdle /\ DayIdle /\ TripIdle /\ ToolIdle /\ OthersIdle

Next ==
    \/ Call
    \/ ResolveLocation
    \/ ValidateInput
    \/ SelectExplicitDates
    \/ SelectForecastDates
    \/ ReturnForecastDates
    \/ PlanDays
    \/ SelectAccommodation
    \/ SkipAccommodation
    \/ Render

Spec == Init /\ [][Next]_vars

(***************************************************************************)
(* The tools of the trip planner server                                    *)
(***************************************************************************)

\* The public methods of TripPlannerService: the parameters each accepts
\* and those without a default.
ServiceMethods ==
    [plan_trip |->
        [params   |-> {"location", "start_date", "duration", "trip_style", "budget",
                       "include_accommodation"},
         required |-> {"location"}],
     plan_weather_based_trip |->
        [params   |-> {"location", "weather_condition", "duration", "trip_style"},
         required |-> {"location", "weather_condition"}]]

\* trip_planner/tools.py: the service method each tool calls, the keyword
\* arguments it passes, and the prefix of the string its except clause
\* returns.
Tools ==
    [plan_complete_trip |->
        [method   |-> "plan_trip",
         keywords |-> {"destination", "start_date", "end_date", "budget", "interests",
                       "group_size", "accommodation_type"},
         prefix   |-> "Error planning trip"],
     suggest_daily_activities |->
        [method   |-> "suggest_activities",
         keywords |-> {"destination", "date", "weather_condition", "interests",
                       "duration_hours"},
         prefix   |-> "Error suggesting activities"],
     find_nearby_amenities |->
        [method   |-> "find_nearby_amenities",
         keywords |-> {"location", "amenity_type", "distance_km"},
         prefix   |-> "Error finding amenities"],
     get_weather_based_recommendations |->
        [method   |-> "suggest_activities",
         keywords |-> {"destination", "date", "weather_condition", "interests",
                       "duration_hours"},
         prefix   |-> "Error getting weather-based recommendations"]]

NoException == [type |-> "none", text |-> "", about |-> {}]

\* trip_planner_service.<method>(**keywords): the attribute lookup and the
\* binding of the keyword arguments to the method's parameters.
\* NoException when the method body is entered.
CallMethod(method, keywords) ==
    IF method \notin DOMAIN ServiceMethods
    THEN [type |-> "AttributeError", text |-> "object has no attribute", about |-> {method}]
    ELSE IF ~(keywords \subseteq ServiceMethods[method].params)
    THEN [type |-> "TypeError", text |-> "got an unexpected keyword argument",
          about |-> keywords \ ServiceMethods[method].params]
    ELSE IF ~(ServiceMethods[method].required \subseteq keywords)
    THEN [type |-> "TypeError", text |-> "missing required positional argument",
          about |-> ServiceMethods[method].required \ keywords]
    ELSE NoException

\* return f"Error planning trip: {str(e)}" and its likes in the other tools.
ErrorString(prefix, e) ==
    [kind |-> "error_string", prefix |-> prefix, exception_text |-> e.text]

\* The calls of the harness: each tool with a destination the geocoder
\* knows or not, dates, a budget name and an interests string.
Destinations == {"Rome", "Atlantis"}
ToolBudgets  == {"budget", "moderate", "luxury"}
InterestStrings == {"", "cultural,natural"}
ToolCalls ==
    [tool : DOMAIN Tools, destination : Destinations,
     start_date : {MalformedDate, YmdDate(Today + 4)},
     end_date : {MalformedDate, YmdDate(Today + 6)},
     budget : ToolBudgets, interests : InterestStrings]

\* The try block of a tool up to the point where the service method is
\* entered or the call raises.
ToolTry ==
    /\ tool_pc = "try"
    /\ LET t == Tools[tool_call.tool]
           e == CallMethod(t.method, t.keywords)
       IN  /\ tool_exception' = e
           /\ tool_pc' = IF e = NoException THEN "in_service" ELSE "except"
    /\ UNCHANGED <<tool_call, tool_result, score_vars, sel_vars, day_vars, trip_vars,
                   conc_vars, match_vars>>

\* "except Exception as e": the tool returns the error string.
ToolExcept ==
    /\ tool_pc = "except"
    /\ tool_result' = ErrorString(Tools[tool_call.tool].prefix, tool_exception)
    /\ tool_pc' = "returned"
    /\ UNCHANGED <<tool_call, tool_exception, score_vars, sel_vars, day_vars, trip_vars,
                   conc_vars, match_vars>>

InitTool ==
    /\ tool_call \in ToolCalls
    /\ tool_pc = "try" /\ tool_exception = NoException /\ tool_result = NoResult
    /\ ScoreIdle /\ SelIdle /\ DayIdle /\ TripIdle /\ OthersIdle
NextTool == ToolTry \/ ToolExcept
SpecTool == InitTool /\ [][NextTool]_vars

(***************************************************************************)
(* _parse_duration and the duration check of plan_trip on their own        *)
(***************************************************************************)

\* plan_trip stands at line 75 with any duration argument of AllDurations.
InitDuration ==
    /\ pc = "ValidatingInput"
    /\ args \in DurationArgs
    /\ coords = <<args.location.lat, args.location.lng>>
    /\ api_key = FALSE /\ geo_outcome = "none" /\ trip_days = None
    /\ dates = <<>> /\ date_path = "none" /\ daily_plans = <<>>
    /\ poi_failures = 0 /\ accommodation = NoOffer
    /\ result = NoResult /\ calls = NoCalls /\ log = <<>>
    /\ booking_answer = NoAnswer
    /\ ScoreIdle /\ SelIdle /\ DayIdle /\ ToolIdle /\ OthersIdle
NextDuration == ValidateInput
SpecDuration == InitDuration /\ [][NextDuration]_vars

(***************************************************************************)
(* process_user_query: two requests interleaving on one event loop         *)
(***************************************************************************)

\* Lines 30-35: request r starts to open its four server connections and
\* waits for them.
Connect(r) ==
    /\ req_pc[r] = "start"
    /\ req_pc' = [req_pc EXCEPT ![r] = "connecting"]
    /\ UNCHANGED <<agent_mcp_servers, server_open, last_use>>
    /\ UNCHANGED <<score_vars, sel_vars, day_vars, trip_vars, tool_vars, match_vars>>

\* Lines 35-47: the connections of r are open; with no await in between,
\* the mcp_servers of the four module-level agents are set to them.
Wire(r) ==
    /\ req_pc[r] = "connecting"
    /\ server_open' = [server_open EXCEPT ![r] = TRUE]
    /\ agent_mcp_servers' = [a \in Agents |-> r]
    /\ req_pc' = [req_pc EXCEPT ![r] = "running"]
    /\ UNCHANGED last_use
    /\ UNCHANGED <<score_vars, sel_vars, day_vars, trip_vars, tool_vars, match_vars>>

\* Lines 50-53: inside Runner.run of request r an agent reaches its tools
\* through the servers its mcp_servers holds at that moment.
UseTool(r, a) ==
    /\ req_pc[r] = "running"
    /\ last_use' = [request |-> r, agent |-> a,
                    server_of |-> agent_mcp_servers[a],
                    open |-> server_open[agent_mcp_servers[a]]]
    /\ UNCHANGED <<req_pc, agent_mcp_servers, server_open>>
    /\ UNCHANGED <<score_vars, sel_vars, day_vars, trip_vars, tool_vars, match_vars>>

\* Line 55 and the end of the async with block: Runner.run of request r
\* returned, its connections are closed; the agents keep what they hold.
Leave(r) ==
    /\ req_pc[r] = "running"
    /\ server_open' = [server_open EXCEPT ![r] = FALSE]
    /\ req_pc' = [req_pc EXCEPT ![r] = "done"]
    /\ UNCHANGED <<agent_mcp_servers, last_use>>
    /\ UNCHANGED <<score_vars, sel_vars, day_vars, trip_vars, tool_vars, match_vars>>

InitConc ==
    /\ req_pc = [r \in Requests |-> "start"]
    /\ agent_mcp_servers = [a \in Agents |-> NoRequest]
    /\ server_open = [r \in Requests |-> FALSE]
    /\ last_use = NoUse
    /\ ScoreIdle /\ SelIdle /\ DayIdle /\ TripIdle /\ ToolIdle /\ MatchIdle
NextConc ==
    \E r \in Requests :
        \/ Connect(r)
        \/ Wire(r)
        \/ \E a \in Agents : UseTool(r, a)
        \/ Leave(r)
SpecConc == InitConc /\ [][NextConc]_vars

(***************************************************************************)
(* Date matching of plan_weather_based_trip                                *)
(***************************************************************************)

\* [base_date + timedelta(days=i) for i in range(days)] with
\* base_date = datetime.now() + timedelta(days=2)
InTwoDays(days) == [i \in 1..days |-> Today + 2 + (i - 1)]

\* TripPlannerService._find_weather_matching_dates: the error-string
\* branch, the exception handler, the no-data branch and the branch that
\* has forecast data.
_find_weather_matching_dates(forecast, weather_condition, days) ==
    IF forecast.kind = "error_string" THEN InTwoDays(days)
    ELSE IF forecast.kind = "raises" THEN InTwoDays(days)
    ELSE IF forecast.daily.time = <<>> THEN InTwoDays(days)
    ELSE InTwoDays(days)

\* Lines 160-163 of plan_weather_based_trip: the call and the check of
\* what it returned.
FindWeatherMatchingDates ==
    /\ match_pc = "input"
    /\ match_dates' = _find_weather_matching_dates(match_call.forecast,
                                                   match_call.weather_condition,
                                                   match_call.days)
    /\ match_result' = IF match_dates' = <<>> THEN "no_suitable_weather" ELSE "planning"
    /\ match_pc' = "returned"
    /\ UNCHANGED match_call
    /\ UNCHANGED <<score_vars, sel_vars, day_vars, trip_vars, tool_vars, conc_vars>>

InitMatch ==
    /\ match_call \in MatchCalls
    /\ match_pc = "input" /\ match_dates = <<>> /\ match_result = "none"
    /\ ScoreIdle /\ SelIdle /\ DayIdle /\ TripIdle /\ ToolIdle /\ ConcIdle
NextMatch == FindWeatherMatchingDates
SpecMatch == InitMatch /\ [][NextMatch]_vars

(***************************************************************************)
(* Properties                                                              *)
(***************************************************************************)

\* C1: for every daily forecast, the score of each forecast scorer (both
\* copies of WeatherService._calculate_day_score and
\* TripPlannerService._calculate_weather_score) is at least 0 and at most
\* 100 (200 half points).
C1_ScoreWithinRange ==
    scores.scored =>
        /\ scores.mcp \in 0..100
        /\ scores._mcp \in 0..100
        /\ scores.trip_half \in 0..200

\* A day of heavy rain was scored: the uncapped scorers ran below zero and
\* returned 0, the capped one took off 50 points.
C1_Witness ==
    /\ scores.scored
    /\ day.precip_tenths = 120 /\ day.precip_prob = 0 /\ day.weather_code = 0
    /\ day.max_temp = 22 /\ day.min_temp = 14 /\ day.wind = 10
    /\ scores.mcp = 50 /\ scores._mcp = 0 /\ scores.trip_half = 0

\* The dates of a list of scored days.
DatesOf(sd) == {sd[i].date : i \in 1..Len(sd)}

\* The dates d such that d, d+1, .., d+n-1 are all among the scored days:
\* the starts of the windows of n consecutive dates.
WindowStarts(sd, n) == {d \in DatesOf(sd) : \A k \in 0..(n - 1) : (d + k) \in DatesOf(sd)}

ScoreOn(sd, d) == (CHOOSE i \in 1..Len(sd) : sd[i].date = d)

RECURSIVE WindowSum(_, _, _)
\* The score sum of the n days from date d on.
WindowSum(sd, d, n) ==
    IF n = 0 THEN 0 ELSE sd[ScoreOn(sd, d + n - 1)].score + WindowSum(sd, d, n - 1)

\* seq holds n dates, each one day after the previous one.
IsRunOfDates(seq, n) ==
    /\ Len(seq) = n
    /\ \A i \in 1..(n - 1) : seq[i + 1] = seq[i] + 1

\* C2: over a fully contiguous 14-day scored sequence with window_size 7,
\* _find_best_consecutive_days returns exactly 7 dates, each one day after
\* the previous one, whatever the scores are.
C2_SevenOfFourteen ==
    (/\ sel_pc = "returned"
     /\ days_needed = 7
     /\ Len(scored_days) = FORECAST_DAYS
     /\ DatesOf(scored_days) = 1..FORECAST_DAYS)
    => IsRunOfDates(best_dates, 7)

\* The time slots of a list of activities, in order.
SlotsOf(activities) == [i \in 1..Len(activities) |-> activities[i].time]

\* C3: for a style with activities_per_day = 3 and a places collaborator
\* that answers every query with candidates, the DayPlan has exactly 3
\* activities, in the order morning, afternoon, evening.
C3_ThreeActivitiesInOrder ==
    (/\ day_pc = "returned"
     /\ TRIP_STYLES[style_config].activities_per_day = 3
     /\ \A k \in DOMAIN poi_answers : poi_answers[k] = "results")
    => SlotsOf(day_plan.activities) = <<"morning", "afternoon", "evening">>

\* plan_trip is over: it returned or it raised.
Finished == pc \in {"Done", "Failed", "Raised"}

\* C4: with include_accommodation, a configured credential and an
\* accommodation search that returned an offer, plan_trip finishes
\* rendering without raising and its report holds the header, the
\* accommodation block, the per-day itinerary and the closing notes.
C4_ReportWithAccommodation ==
    (/\ Finished
     /\ args.include_accommodation /\ api_key
     /\ accommodation # NoOffer)
    => /\ pc = "Done"
       /\ result.kind = "report"
       /\ result.accommodation = accommodation
       /\ Len(result.itinerary) = Len(dates)
       /\ result.notes

\* C5: without a booking credential, plan_trip with include_accommodation
\* never raises and never calls the accommodation collaborator, and the
\* report it returns has one itinerary entry per planned day and no
\* accommodation section.
C5_NoCredentialNoAccommodation ==
    (pc # "idle" /\ args.include_accommodation /\ ~api_key)
    => /\ pc # "Raised"
       /\ calls.booking = 0
       /\ accommodation = NoOffer
       /\ pc = "Done" =>
            /\ result.kind = "report"
            /\ result.accommodation = NoOffer
            /\ Len(result.itinerary) = Len(dates)
            /\ \A d \in 1..Len(dates) : result.itinerary[d].date = dates[d]

\* A run with include_accommodation and no credential returned its report,
\* although the places collaborator failed every query.
C5_Witness ==
    /\ pc = "Done"
    /\ args.include_accommodation /\ ~api_key
    /\ result.kind = "report"
    /\ Len(result.itinerary) = 2
    /\ poi_failures > MaxPoiFailures

\* C6: what the caller of get_coordinates gets when the geocoding request
\* failed differs from what it gets when the geocoder had zero results
\* (<<None, None>>), and plan_trip reports the two cases differently (the
\* zero-results report is "location_not_found").
C6_TransportErrorDistinct ==
    (pc = "Failed" /\ geo_outcome = "failed")
    => /\ coords # get_coordinates([kind |-> "zero_results", lat |-> 0, lng |-> 0])
       /\ result # Message("location_not_found")

\* C7: _find_best_consecutive_days returns nothing, never a shorter window,
\* when window_size exceeds the number of scored days; and a plan_trip run
\* without start date and with a duration above 14 plans no fewer days than
\* the duration.
C7_NoTruncatedWindow ==
    /\ (sel_pc = "returned" /\ days_needed > Len(scored_days)) => best_dates = <<>>
    /\ (/\ pc \in {"ForecastDatesSelected", "PlanningDays", "SelectingAccommodation",
                  "Rendering", "Done", "Raised"}
        /\ ~StartDateGiven(args.start_date)
        /\ trip_days > FORECAST_DAYS)
       => /\ Len(dates) >= trip_days
          /\ pc \notin {"ForecastDatesSelected", "PlanningDays"}
               => Len(daily_plans) >= trip_days
          /\ pc = "Done" => Len(result.itinerary) >= trip_days

\* A 15-day trip without start date was planned from a forecast in which
\* the selector found no window: 15 days are in the report.
C7_Witness ==
    /\ pc = "Done"
    /\ ~StartDateGiven(args.start_date)
    /\ trip_days = 15
    /\ date_path = "fallback_no_window"
    /\ Len(result.itinerary) = 15

\* C8: whenever the scored days hold a window of window_size consecutive
\* dates, _find_best_consecutive_days returns such a window, and its score
\* sum is at least the score sum of every other such window.
C8_WindowIsMaximal ==
    (sel_pc = "returned" /\ WindowStarts(scored_days, days_needed) # {})
    => /\ IsRunOfDates(best_dates, days_needed)
       /\ best_dates[1] \in WindowStarts(scored_days, days_needed)
       /\ \A d \in WindowStarts(scored_days, days_needed) :
            WindowSum(scored_days, best_dates[1], days_needed)
              >= WindowSum(scored_days, d, days_needed)

\* C9: when several windows of consecutive dates share the maximum score
\* sum, _find_best_consecutive_days returns the one that starts earliest,
\* also for a list handed over in score order.
C9_EarliestOfTheBest ==
    LET starts == WindowStarts(scored_days, days_needed)
        best   == {d \in starts : \A e \in starts :
                      WindowSum(scored_days, d, days_needed)
                        >= WindowSum(scored_days, e, days_needed)}
    IN  (sel_pc = "returned" /\ Cardinality(best) >= 2)
        => /\ IsRunOfDates(best_dates, days_needed)
           /\ best_dates[1] \in best
           /\ \A d \in best : best_dates[1] <= d

\* The number of days the duration argument stands for.
RequestedDays(duration) ==
    IF duration.kind = "none" THEN 3
    ELSE IF duration.kind = "int" THEN duration.int
    ELSE IF duration.str = "weekend" THEN 2
    ELSE 0

\* C10: every plan_trip run that gets to plan its days plans exactly the
\* resolved number of days, on every date-selection path: as many dates,
\* DayPlans and itinerary entries as the duration says; "weekend" is 2.
C10_PlansResolvedDuration ==
    (pc \in {"SelectingAccommodation", "Rendering", "Done", "Raised"})
    => /\ trip_days = RequestedDays(args.duration)
       /\ Len(dates) = trip_days
       /\ Len(daily_plans) = trip_days
       /\ pc = "Done" => /\ Len(result.itinerary) = trip_days
                         /\ result.header.duration = trip_days
       /\ args.duration = StrDuration("weekend") => Len(daily_plans) = 2

\* A "weekend" trip whose dates came from the fallback was reported with
\* its 2 days.
C10_Witness ==
    /\ pc = "Done"
    /\ args.duration = StrDuration("weekend")
    /\ date_path \in {"fallback_error", "fallback_exception", "fallback_no_data",
                      "fallback_no_window"}
    /\ Len(result.itinerary) = 2

\* plan_trip got past its argument checks: the location is a coordinate
\* pair or a name the geocoder resolved, and the duration parses.
ResolvedAndTimed ==
    /\ ~(Falsy(coords[1]) \/ Falsy(coords[2]))
    /\ ~Falsy(_parse_duration(args.duration))

WithPrecip(d, precip_tenths) == [d EXCEPT !.precip_tenths = precip_tenths]

\* C12: for every daily forecast and every larger precipitation amount,
\* all other fields unchanged, each forecast scorer (both copies of
\* WeatherService._calculate_day_score and
\* TripPlannerService._calculate_weather_score) returns a score that is
\* not above the score of the original forecast.
C12_MorePrecipitationNeverHelps ==
    scores.scored =>
        \A p \in PrecipTenths :
            p >= day.precip_tenths =>
                LET wetter == ScoresOf(WithPrecip(day, p))
                IN  /\ wetter.mcp <= scores.mcp
                    /\ wetter._mcp <= scores._mcp
                    /\ wetter.trip_half <= scores.trip_half

\* A mild day with 2 mm of rain was scored 80; with 5 mm and more every
\* scorer gives strictly less, the capped one 50 at 5 mm and at 12 mm.
C12_Witness ==
    /\ scores.scored
    /\ day = [max_temp |-> 22, min_temp |-> 14, precip_tenths |-> 20,
              precip_prob |-> 0, wind |-> 10, weather_code |-> 0]
    /\ scores.mcp = 80 /\ scores._mcp = 80 /\ scores.trip_half = 160
    /\ ScoresOf(WithPrecip(day, 50)).mcp = 50
    /\ ScoresOf(WithPrecip(day, 120)).mcp = 50
    /\ ScoresOf(WithPrecip(day, 50)).trip_half = 100

\* C13: whatever exception is raised inside a tool of the trip planner
\* server, the tool's caller gets a generic message: what the tool returns
\* carries neither the exception nor the exception's text.
C13_ExceptionsBecomeGenericMessage ==
    (tool_pc = "returned" /\ tool_exception # NoException)
    => /\ tool_result.kind \in {"message", "error_string"}
       /\ tool_result.exception_text = ""

\* C14: plan_complete_trip called with a destination the geocoder knows, a
\* well-formed start and end date and a valid budget returns the report of
\* plan_trip and no error string.
C14_ToolReturnsThePlan ==
    (/\ tool_pc = "returned"
     /\ tool_call.tool = "plan_complete_trip"
     /\ tool_call.destination = "Rome"
     /\ tool_call.start_date.kind = "ymd" /\ tool_call.end_date.kind = "ymd"
     /\ tool_call.budget \in BUDGET_CATEGORIES)
    => /\ tool_exception = NoException
       /\ tool_result.kind = "report"

\* The duration, trip style or budget argument is one plan_trip rejects.
InvalidInput(a) ==
    \/ Falsy(_parse_duration(a.duration))
    \/ a.trip_style \notin DOMAIN TRIP_STYLES
    \/ a.budget \notin BUDGET_CATEGORIES

\* C15: plan_trip validates duration, style and budget before it resolves
\* the place name: a run with an invalid duration, style or budget never
\* calls the geocoder and ends in Failed with the validation message,
\* whether or not the place name can be resolved; and every run that ends
\* in Failed failed in validation or in resolving the location.
C15_ValidationBeforeResolution ==
    /\ (pc # "idle" /\ InvalidInput(args))
       => /\ calls.geocode = 0
          /\ Finished => /\ pc = "Failed"
                          /\ result.kind = "message"
                          /\ result.text \in {"invalid_duration", "invalid_trip_style",
                                              "invalid_budget"}
    /\ pc = "Failed"
       => result.text \in {"invalid_duration", "invalid_trip_style", "invalid_budget",
                           "location_not_found"}

\* C16: for every forecast day the score of
\* TripPlannerService._calculate_weather_score equals the score of
\* WeatherService._calculate_day_score (mcp tree), the scorer that
\* implements the penalty rules with their caps and the integer result.
C16_TripScoreIsForecastScore ==
    scores.scored => scores.trip_half = 2 * scores.mcp

\* C17: in both copies of WeatherService._calculate_day_score the
\* precipitation amount term is precipitation_mm x 10 and at most 50
\* points, and the precipitation probability term is probability / 2 and
\* at most 30 points, for every forecast day.
C17_PrecipitationTermsCapped ==
    scores.scored =>
        /\ scores.mcp_terms.precip_amount_half = 2 * Min(50, day.precip_tenths)
        /\ scores.mcp_terms.precip_prob_half = Min(60, day.precip_prob)
        /\ scores._mcp_terms.precip_amount_half = 2 * Min(50, day.precip_tenths)
        /\ scores._mcp_terms.precip_prob_half = Min(60, day.precip_prob)

\* The temperature penalty of the penalty rules: 30 when max_temp_c > 30
\* or min_temp_c < 5, otherwise 15 when max_temp_c > 25 or min_temp_c < 10,
\* otherwise 0.
OneTemperaturePenalty(d) ==
    IF d.max_temp > 30 \/ d.min_temp < 5 THEN 30
    ELSE IF d.max_temp > 25 \/ d.min_temp < 10 THEN 15
    ELSE 0

\* C18: for every forecast day the temperature penalty each forecast
\* scorer applies (both copies of WeatherService._calculate_day_score and
\* TripPlannerService._calculate_weather_score) is the single value 0, 15
\* or 30 the penalty rule gives; extreme and moderate never add up.
C18_OneTemperaturePenalty ==
    scores.scored =>
        /\ scores.mcp_terms.temperature = OneTemperaturePenalty(day)
        /\ scores._mcp_terms.temperature = OneTemperaturePenalty(day)
        /\ scores.trip_terms.temperature = OneTemperaturePenalty(day)

\* C19: whatever _find_best_consecutive_days returns is a run of
\* days_needed dates of the scored days, each one day after the previous
\* one; and it returns nothing when the scored days hold no run of
\* days_needed consecutive dates, however many days they are.
C19_OnlyConsecutiveWindows ==
    sel_pc = "returned" =>
        /\ best_dates # <<>> =>
              /\ IsRunOfDates(best_dates, days_needed)
              /\ \A i \in 1..Len(best_dates) : best_dates[i] \in DatesOf(scored_days)
        /\ WindowStarts(scored_days, days_needed) = {} => best_dates = <<>>

\* Three scored days with a gap between them, all with a positive score,
\* and a window of 2: nothing was returned.
C19_Witness ==
    /\ sel_pc = "returned"
    /\ days_needed = 2
    /\ DatesOf(scored_days) = {1, 3, 5}
    /\ \A i \in 1..Len(scored_days) : scored_days[i].score > 0
    /\ best_dates = <<>>

\* C20: when plan_trip ran without a start date and the window selector
\* found nothing, the plan covers exactly the resolved number of days from
\* tomorrow on, and the run's report or its log says that the dates are a
\* fallback.
C20_FallbackIsExplicit ==
    (pc = "Done" /\ date_path = "fallback_no_window")
    => /\ dates = [i \in 1..trip_days |-> Today + i]
       /\ Len(result.itinerary) = trip_days
       /\ \/ "date_selection" \in DOMAIN result
          \/ "date_selection" \in DOMAIN result.header
          \/ \E i \in 1..Len(log) : log[i] = "date fallback"

\* C21: when plan_trip runs without a start date and no forecast can be
\* had (the forecast collaborator returns an error string, raises, or
\* returns no days), plan_trip produces no day plan and its whole response
\* is the failure message.
C21_NoForecastIsTheResponse ==
    (date_path \in {"fallback_error", "fallback_exception", "fallback_no_data"})
    => /\ pc \in {"ForecastDatesSelected", "Failed"}
       /\ daily_plans = <<>>
       /\ calls.places = 0
       /\ pc = "Failed" => result = Message("no_weather_data")

\* C22: in every DayPlan _plan_single_day returns, for every trip style
\* and every combination of answers of the places collaborator, no two
\* activities carry the same time slot.
C22_OneActivityPerSlot ==
    day_pc = "returned" =>
        \A i, j \in 1..Len(day_plan.activities) :
            i # j => day_plan.activities[i].time # day_plan.activities[j].time

\* Some call of the places or of the accommodation collaborator failed
\* after plan_trip reached the loop over dates.
SomeCollaboratorFailed ==
    /\ calls.places > 0
    /\ \/ poi_failures > 0
       \/ booking_answer.kind \in BookingOutcomes \ {"results"}

\* C23: once plan_trip plans days, whatever combination of calls of the
\* places and accommodation collaborators fails (exception, error string,
\* empty result), plan_trip does not abort: it returns a rendered report
\* with one itinerary entry per planned day.
C23_CollaboratorFailuresNeverAbort ==
    (Finished /\ SomeCollaboratorFailed)
    => /\ pc = "Done"
       /\ result.kind = "report"
       /\ Len(result.itinerary) = Len(dates)

\* C24: requests that run process_user_query concurrently share no mutable
\* state: while a request runs, every agent holds the server connections
\* this request opened, and every tool use of the request goes through a
\* connection it opened itself and that is still open.
C24_RequestsShareNothing ==
    /\ \A r \in Requests :
         req_pc[r] = "running" => \A a \in Agents : agent_mcp_servers[a] = r
    /\ last_use # NoUse =>
         /\ last_use.server_of = last_use.request
         /\ last_use.open

\* The condition codes (WMO) a requested weather condition stands for.
ConditionCodes(weather_condition) ==
    IF weather_condition = "sunny" THEN 0..1
    ELSE IF weather_condition = "rainy" THEN (51..67) \cup (80..82)
    ELSE IF weather_condition = "snowy" THEN (71..77) \cup (85..86)
    ELSE {}

\* date is a day of the forecast whose condition code matches.
MatchingForecastDay(forecast, weather_condition, date) ==
    /\ forecast.kind = "data"
    /\ \E i \in 1..Len(forecast.daily.time) :
         /\ forecast.daily.time[i] = date
         /\ i <= Len(forecast.daily.weather)
         /\ forecast.daily.weather[i].weather_code \in ConditionCodes(weather_condition)

\* C25: the dates plan_weather_based_trip gets from
\* _find_weather_matching_dates are forecast days whose condition codes
\* match the requested weather condition, and when the forecast has no
\* run of matching days the planner answers that no suitable weather was
\* found.
C25_DatesMatchTheCondition ==
    match_pc = "returned" =>
        IF match_dates = <<>>
        THEN match_result = "no_suitable_weather"
        ELSE \A i \in 1..Len(match_dates) :
               MatchingForecastDay(match_call.forecast, match_call.weather_condition,
                                   match_dates[i])

\* The value the duration rules give: a number of days in 1..30, or None
\* for "invalid".  A digit string is a string int() can read.
RuledDuration(duration) ==
    LET InRange(n) == 1 <= n /\ n <= 30
        s == DurationStrings[duration.str]
        presets == [weekend |-> 2, short |-> 3, week |-> 7, extended |-> 14, month |-> 30]
    IN  CASE duration.kind = "none" -> DEFAULT_TRIP_DURATION
          [] duration.kind = "int"  -> IF InRange(duration.int) THEN duration.int ELSE None
          [] duration.kind = "str" /\ s.isdigit /\ s.int # ValueErrorRaised
               -> IF InRange(s.int) THEN s.int ELSE None
          [] duration.kind = "str" /\ ~(s.isdigit /\ s.int # ValueErrorRaised)
               -> IF s.lower \in DOMAIN presets THEN presets[s.lower] ELSE None

\* C26: for every duration argument _parse_duration returns a number of
\* days in 1..30 or None (invalid): an integer or digit string in 1..30
\* unchanged, one outside 1..30 invalid, a preset name its preset value
\* whatever its letter case, any other string invalid; and plan_trip
\* fails with the duration message exactly when the result is invalid.
C26_DurationParsedOrInvalid ==
    pc # "ValidatingInput" =>
        /\ trip_days \in (1..30) \cup {None}
        /\ trip_days = RuledDuration(args.duration)
        /\ (pc = "Failed" /\ result = InvalidDurationMessage) <=> (trip_days = None)

\* plan_trip is past its date selection.
DatesSelected ==
    pc \in {"PlanningDays", "SelectingAccommodation", "Rendering", "Done", "Raised"}

\* C27: with a well-formed explicit start date the planned dates are
\* exactly start, start + 1, ..., start + duration - 1, nothing is scored
\* and the forecast collaborator is not called in that run of plan_trip.
C27_ExplicitStartDateIsUsed ==
    (pc # "idle" /\ args.start_date.kind = "ymd")
    => /\ calls.forecast = 0
       /\ sel_pc = "idle" /\ scored_days = <<>>
       /\ DatesSelected =>
            /\ date_path = "explicit"
            /\ Len(dates) = trip_days
            /\ \A i \in 1..trip_days : dates[i] = args.start_date.day + (i - 1)

\* A run with an explicit start date planned several days and finished.
C27_Witness ==
    /\ pc = "Done"
    /\ args.start_date.kind = "ymd"
    /\ date_path = "explicit"
    /\ Len(dates) >= 2
    /\ Len(daily_plans) = Len(dates)

\* Position of a time slot in the day.
SlotRank(time) ==
    CASE time = "morning" -> 1 [] time = "afternoon" -> 2 [] time = "evening" -> 3

\* C28: in every DayPlan the activities stand in chronological slot order
\* (morning, then afternoon, then evening), every evening activity is a
\* restaurant whatever the style's preferred types are, and a day whose
\* evening query got candidates ends with a restaurant activity.
C28_ChronologicalAndDinnerLast ==
    day_pc = "returned" =>
        LET acts == day_plan.activities
            n    == Len(poi_answers)
        IN  /\ \A i, j \in 1..Len(acts) :
                 i < j => SlotRank(acts[i].time) <= SlotRank(acts[j].time)
            /\ \A i \in 1..Len(acts) :
                 acts[i].time = "evening" => acts[i].type = "restaurant"
            /\ poi_answers[n] = "results" =>
                 /\ acts # <<>>
                 /\ acts[Len(acts)] = [type |-> "restaurant", time |-> "evening"]

\* A day of a style without restaurant among its preferred types got
\* candidates for every query and has activities in all three slots.
C28_Witness ==
    /\ day_pc = "returned"
    /\ style_config = "adventure"
    /\ \A k \in DOMAIN poi_answers : poi_answers[k] = "results"
    /\ Len(day_plan.activities) = 4
    /\ day_plan.activities[1].time = "morning"
    /\ day_plan.activities[4].type = "restaurant"

\* C29: the offer _get_accommodation_suggestions picked is the first
\* result of the search response, its nights are the number of planned
\* days, its check_out is check_in plus nights, and its total_cost is the
\* nightly price of that result multiplied by nights.
C29_OfferIsFirstResultPricedByNights ==
    accommodation # NoOffer =>
        /\ booking_answer.kind = "results"
        /\ accommodation.name = booking_answer.results[1].name
        /\ accommodation.price_per_night = booking_answer.results[1].amount
        /\ accommodation.nights = Len(dates)
        /\ accommodation.check_in = dates[1]
        /\ accommodation.check_out = accommodation.check_in + accommodation.nights
        /\ accommodation.total_cost = booking_answer.results[1].amount * accommodation.nights

\* An offer was picked for a trip of several days from a response with
\* two results of different prices.
C29_Witness ==
    /\ accommodation # NoOffer
    /\ Len(dates) >= 2
    /\ Len(booking_answer.results) = 2
    /\ booking_answer.results[1].amount = 80
    /\ booking_answer.results[2].amount # 80
    /\ accommodation.total_cost = 80 * Len(dates)

\* C30: plan_trip goes on past location resolution for every coordinate
\* the geocoder returns, a latitude of 0 or a longitude of 0 included; it
\* answers that the location could not be found only when the geocoder
\* returned no result or failed.
C30_ZeroCoordinatesResolve ==
    (pc = "Failed" /\ result = Message("location_not_found"))
    => geo_outcome \in {"zero_results", "failed"}

====
